---- MODULE Spec2Model ----
(***************************************************************************)
(* The boss agent (package agent, src/unnamed/part_000) and its container  *)
(* option builders (src/opts/opts.go) as a state machine.                  *)
(*                                                                         *)
(* Two agents serve RPCs.  A request is a frame on a call stack; a handler *)
(* that calls another handler (Create -> Update, Migrate -> Get,           *)
(* Checkpoint, Push, Restore, Delete) pushes a frame and resumes when the  *)
(* callee's frame is popped.  Every call into a collaborator that the code *)
(* checks for an error may fail.  The runtime's tasks exit, are restarted  *)
(* by the unit manager and write to their rw layer on their own.           *)
(***************************************************************************)
EXTENDS Integers, Sequences, FiniteSets, TLC

\* ---------------------------------------------------------------- bounds
MaxOps == 3
MaxConfigOps == 4
MaxRw == 1
MaxEvents == 3

\* ---------------------------------------------------------------- inputs
Nodes == {"a", "b"}
Ids == {"c1"}
\* the containers of a runtime in the order it enumerates them
IdOrder == <<"c1", "c2">>
AllIds == {IdOrder[k] : k \in 1..Len(IdOrder)}
Images == {"i1", "i2"}
Services == {"s1", "s2"}
Refs == {"r1"}

Configs == {[id |-> "c1", image |-> "i1", services |-> {"s1", "s2"}],
            [id |-> "c1", image |-> "i2", services |-> {"s1"}],
            [id |-> "c1", image |-> "i2", services |-> {}]}
\* the agent the requests go to, and the peer it migrates to
Self == "a"
Peer == "b"
NoConfig == [id |-> "", image |-> "", services |-> {}]

\* ---------------------------------------------------------- media types
MediaTypeContainerInfo == "application/vnd.boss.container.info.v1+json"
MediaTypeImageLayer == "application/vnd.oci.image.layer.v1.tar"
MediaTypeImageLayerGzip == "application/vnd.oci.image.layer.v1.tar+gzip"
MediaTypeContainerd1Checkpoint == "application/vnd.containerd.container.criu.checkpoint.criu.tar"
MediaTypeContainerd1CheckpointConfig == "application/vnd.containerd.container.checkpoint.config.v1+proto"

\* ------------------------------------------------------------- records
\* A container record of the runtime: the two extensions, the
\* container's image, the content of the rw layer, and whether collecting
\* its info fails (a corrupt config extension).
NoCtr == [ex |-> FALSE, cur |-> NoConfig, last |-> NoConfig, image |-> "", rw |-> 0, bad |-> FALSE]

\* An image index: the container record of its info blob and its manifests.
NoIndex == [ex |-> FALSE, info |-> NoCtr, manifests |-> <<>>, by |-> ""]

NewFrame(op, n, id) ==
    [op |-> op, node |-> n, id |-> id, ref |-> "", cfg |-> NoConfig, to |-> n,
     live |-> FALSE, exit |-> FALSE, del |-> FALSE, upd |-> FALSE,
     pc |-> "start", err |-> "", sub |-> "", hadimg |-> FALSE, diffcur |-> NoConfig,
     pre |-> NoCtr, tpre |-> NoCtr, lease |-> FALSE, tsk |-> FALSE, paused |-> FALSE,
     todo |-> <<>>, applied |-> <<>>, failedAt |-> 0, sigs |-> <<>>,
     timedOut |-> FALSE, maint |-> {}, maintOk |-> {}, dereg |-> {}, deregOk |-> {},
     idx |-> NoIndex, rmimg |-> FALSE, rmtried |-> 0, log |-> <<>>,
     resp |-> <<>>, failed |-> {}]

\* the request that returned last, when it was an Update or a Rollback that
\* succeeded, with the CurrentConfig it found
NoCall == [op |-> "", cur |-> NoConfig]

\* The cluster as agent a sees it, and what its construction left: the
\* members the node reports, the peers New found, the members
\* handleResolvConf captured, the events waiting in its channel, the lines of
\* resolv.conf and the SLAVEOF commands sent to the local store.
Me == [host |-> "h0", master |-> FALSE, port |-> ""]
PeerSet == {[host |-> "h1", master |-> TRUE, port |-> "6001"],
            [host |-> "h2", master |-> TRUE, port |-> "6002"],
            [host |-> "h3", master |-> FALSE, port |-> ""]}
NoNode == [up |-> FALSE, err |-> "", fail |-> "", master |-> FALSE,
           members |-> <<>>, peers0 |-> <<>>, captured |-> <<>>, subscribed |-> FALSE,
           queue |-> 0, events |-> 0, resolv |-> <<>>, wrote |-> FALSE, slaveof |-> <<>>]

VARIABLES ctr, task, unit, imgs, hub, reg, store, leases, stack, nops, prev, node

vars == <<ctr, task, unit, imgs, hub, reg, store, leases, stack, nops, prev, node>>

Top == stack[Len(stack)]
Running(op, pc) == stack # <<>> /\ Top.op = op /\ Top.pc = pc
SetTop(f) == stack' = [stack EXCEPT ![Len(stack)] = f]

\* return e; the deferred done(ctx) has released the lease
Done(f, e) == [f EXCEPT !.pc = "done", !.err = e, !.lease = FALSE]
Released_m(f) == leases
Released(f) == IF f.lease THEN [leases EXCEPT ![f.node] = @ - 1] ELSE leases

Orders(S) == {s \in [1..Cardinality(S) -> S] : \A i, j \in 1..Cardinality(S) : s[i] = s[j] => i = j}

\* ------------------------------------------------------ option builders
WithBossConfig_m(c, config) == [c EXCEPT !.cur = config, !.last = config]
WithBossConfig(c, config) == [c EXCEPT !.cur = config]

WithSetPreviousConfig_m(c) == c
WithSetPreviousConfig(c) == [c EXCEPT !.last = c.cur]

WithRollback_nocheck(c) == [c EXCEPT !.cur = c.last]
WithRollback_m(c) == c
WithRollback_swap(c) == IF c.last = NoConfig THEN c ELSE [c EXCEPT !.cur = c.last, !.last = c.cur]
WithRollback(c) == IF c.last = NoConfig THEN c ELSE [c EXCEPT !.cur = c.last]

WithNewSnapshot(c, image) == [c EXCEPT !.image = image, !.rw = 0]
WithUpgrade(c, image) == [c EXCEPT !.image = image]
FluxWithRollback(c) == IF c.last = NoConfig THEN c ELSE [c EXCEPT !.image = c.last.image]

\* ------------------------------------------------------------- register
EnableMaintainance(r, id, names, okS) ==
    [r EXCEPT ![id] = [s \in Services |->
        IF s \in names /\ s \in okS THEN "maint" ELSE r[id][s]]]
Deregister(r, id, names, okS) ==
    [r EXCEPT ![id] = [s \in Services |->
        IF s \in names /\ s \in okS THEN "gone" ELSE r[id][s]]]
Register(r, id, names) ==
    [r EXCEPT ![id] = [s \in Services |->
        IF s \in names /\ r[id][s] = "gone" THEN "up" ELSE r[id][s]]]

\* for name := range current.Services: the services Kill and Update ask
\* maintenance for
MaintenanceNames_m(current) == {}
MaintenanceNames(current) == current.services

Init ==
    /\ ctr = [n \in Nodes |-> [i \in AllIds |-> NoCtr]]
    /\ task = [n \in Nodes |-> [i \in AllIds |-> "none"]]
    /\ unit = [n \in Nodes |-> [i \in AllIds |-> "off"]]
    /\ imgs = [n \in Nodes |-> [r \in Refs |-> NoIndex]]
    /\ hub = [r \in Refs |-> NoIndex]
    /\ reg = [i \in AllIds |-> [s \in Services |-> "gone"]]
    /\ store = [i \in AllIds |-> NoConfig]
    /\ leases = [n \in Nodes |-> 0]
    /\ stack = <<>>
    /\ nops = 0
    /\ prev = NoCall
    /\ node = NoNode

\* ---------------------------------------------------------- environment
TaskExit ==
    \E n \in Nodes, i \in AllIds :
        /\ task[n][i] = "running"
        /\ task' = [task EXCEPT ![n][i] = "none"]
        /\ UNCHANGED <<ctr, unit, imgs, hub, reg, store, leases, stack, nops, prev, node>>

TaskStart ==
    \E n \in Nodes, i \in AllIds :
        /\ stack = <<>>
        /\ unit[n][i] = "active" /\ ctr[n][i].ex /\ task[n][i] = "none"
        /\ task' = [task EXCEPT ![n][i] = "running"]
        /\ reg' = Register(reg, i, ctr[n][i].cur.services)
        /\ UNCHANGED <<ctr, unit, imgs, hub, store, leases, stack, nops, prev, node>>

TaskWrite ==
    \E n \in Nodes, i \in Ids :
        /\ IF stack = <<>> THEN TRUE ELSE Top.pc = "pause"
        /\ task[n][i] = "running" /\ ctr[n][i].rw < MaxRw
        /\ ctr' = [ctr EXCEPT ![n][i].rw = @ + 1]
        /\ UNCHANGED <<task, unit, imgs, hub, reg, store, leases, stack, nops, prev, node>>

\* ------------------------------------------------------------- requests
Call(f, max) ==
    /\ stack = <<>> /\ nops < max
    /\ stack' = <<f>>
    /\ nops' = nops + 1
    /\ UNCHANGED <<ctr, task, unit, imgs, hub, reg, store, leases, prev, node>>

Return ==
    /\ stack # <<>> /\ Top.pc = "done"
    /\ stack' = IF Len(stack) = 1 THEN <<>>
                ELSE [SubSeq(stack, 1, Len(stack) - 1) EXCEPT ![Len(stack) - 1].sub = Top.err]
    /\ prev' = IF Len(stack) > 1 THEN prev
               ELSE IF Top.err = "nil" /\ Top.op \in {"Update", "Rollback"}
               THEN [op |-> Top.op, cur |-> Top.pre.cur]
               ELSE NoCall
    /\ UNCHANGED <<ctr, task, unit, imgs, hub, reg, store, leases, nops, node>>

\* --------------------------------------------------------------- Create
CallCreate(max) ==
    \E c \in Configs :
        Call([NewFrame("Create", Self, c.id) EXCEPT !.cfg = c, !.pre = ctr[Self][c.id]], max)

\* a Create request with update set
CallCreateUpdate(max) ==
    \E c \in Configs :
        Call([NewFrame("Create", Self, c.id) EXCEPT !.cfg = c, !.upd = TRUE, !.pre = ctr[Self][c.id]], max)

\* a Create request for a second container
OtherConfig == [id |-> "c2", image |-> "i1", services |-> {}]
CallCreateOther(max) ==
    Call([NewFrame("Create", Self, OtherConfig.id) EXCEPT !.cfg = OtherConfig,
                                                         !.pre = ctr[Self][OtherConfig.id]], max)

CreateRun ==
    /\ Running("Create", "start")
    /\ LET f == Top
           n == f.node
           id == f.id
       IN  \/ \* Pull, the volume root read or NewContainer fails
              /\ SetTop(Done(f, "Runtime"))
              /\ UNCHANGED <<ctr, task, unit, imgs, hub, reg, store, leases, nops, prev, node>>
           \/ /\ ctr[n][id].ex /\ ~f.upd
              /\ SetTop(Done(f, "AlreadyExists"))
              /\ UNCHANGED <<ctr, task, unit, imgs, hub, reg, store, leases, nops, prev, node>>
           \/ /\ ctr[n][id].ex /\ f.upd
              /\ stack' = Append([stack EXCEPT ![Len(stack)].pc = "sub"],
                                 [NewFrame("Update", n, id) EXCEPT !.cfg = f.cfg, !.pre = ctr[n][id]])
              /\ UNCHANGED <<ctr, task, unit, imgs, hub, reg, store, leases, nops, prev, node>>
           \/ /\ ~ctr[n][id].ex
              /\ \E wr \in BOOLEAN, en \in BOOLEAN, st \in BOOLEAN :
                    /\ ctr' = [ctr EXCEPT ![n][id] =
                                 IF wr THEN WithBossConfig(WithNewSnapshot([NoCtr EXCEPT !.ex = TRUE], f.cfg.image), f.cfg)
                                 ELSE NoCtr]
                    /\ store' = IF wr THEN [store EXCEPT ![id] = f.cfg] ELSE store
                    /\ unit' = [unit EXCEPT ![n][id] =
                                 IF wr /\ en /\ st THEN "active" ELSE IF wr /\ en THEN "enabled" ELSE @]
                    /\ SetTop(Done(f, IF wr /\ en /\ st THEN "nil" ELSE "Runtime"))
              /\ UNCHANGED <<task, imgs, hub, reg, leases, nops, prev, node>>

CreateSub ==
    /\ Running("Create", "sub") /\ Top.sub # ""
    /\ SetTop(Done(Top, Top.sub))
    /\ UNCHANGED <<ctr, task, unit, imgs, hub, reg, store, leases, nops, prev, node>>

\* --------------------------------------------------------------- Update
\* the change list of one Update: one deregister per dropped service, in
\* the iteration order ds of the map, then image, config and files
\* the loop over current.Services: the names the desired config lacks
DroppedServices_m(current, desired) == current.services
DroppedServices(current, desired) == current.services \ desired.services

UpdateChanges_m(current, desired, ds) ==
    [i \in 1..Len(ds) |-> [kind |-> "dereg", name |-> ds[i]]]
        \o <<[kind |-> "config", name |-> ""], [kind |-> "image", name |-> ""],
             [kind |-> "files", name |-> ""]>>
UpdateChanges(current, desired, ds) ==
    [i \in 1..Len(ds) |-> [kind |-> "dereg", name |-> ds[i]]]
        \o <<[kind |-> "image", name |-> ""], [kind |-> "config", name |-> ""],
             [kind |-> "files", name |-> ""]>>

CallUpdate(max) ==
    \E c \in Configs :
        Call([NewFrame("Update", Self, c.id) EXCEPT !.cfg = c, !.pre = ctr[Self][c.id]], max)

UpdateBegin ==
    /\ Running("Update", "start")
    /\ LET f == Top
           n == f.node
           id == f.id
           c == ctr[n][id]
       IN  \/ \* WithLease fails
              /\ SetTop(Done(f, "Runtime"))
              /\ UNCHANGED <<ctr, task, unit, imgs, hub, reg, store, leases, nops, prev, node>>
           \/ /\ ~c.ex
              /\ SetTop(Done(f, "NotFound"))
              /\ UNCHANGED <<ctr, task, unit, imgs, hub, reg, store, leases, nops, prev, node>>
           \/ /\ c.ex
              /\ \E okS \in SUBSET c.cur.services, ok \in BOOLEAN,
                    ds \in Orders(DroppedServices(c.cur, f.cfg)) :
                    LET g == [f EXCEPT !.maint = MaintenanceNames(c.cur),
                                       !.maintOk = okS]
                    IN  /\ reg' = EnableMaintainance(reg, id, MaintenanceNames(c.cur), okS)
                        /\ IF ok
                           THEN /\ SetTop([g EXCEPT !.pc = "pause", !.lease = TRUE,
                                                    !.tsk = (task[n][id] # "none"),
                                                    !.todo = UpdateChanges(c.cur, f.cfg, ds)])
                                /\ leases' = [leases EXCEPT ![n] = @ + 1]
                           ELSE \* the volume root read, the task lookup or task.Wait fails
                                /\ SetTop(Done(g, "Runtime"))
                                /\ UNCHANGED leases
              /\ UNCHANGED <<ctr, task, unit, imgs, hub, store, nops, prev, node>>

\* pauseAndRun up to the call of its body
PauseAndRun ==
    /\ stack # <<>> /\ Top.pc = "pause"
    /\ LET f == Top
           n == f.node
           id == f.id
       IN  IF task[n][id] = "none"
           THEN /\ SetTop([f EXCEPT !.pc = "body"])
                /\ UNCHANGED <<task, leases>>
           ELSE \E ok \in BOOLEAN :
                    IF ok
                    THEN /\ task' = [task EXCEPT ![n][id] = "paused"]
                         /\ SetTop([f EXCEPT !.pc = "body", !.paused = TRUE])
                         /\ UNCHANGED leases
                    ELSE /\ SetTop(Done(f, "Runtime"))
                         /\ leases' = Released(f)
                         /\ UNCHANGED task
    /\ UNCHANGED <<ctr, unit, imgs, hub, reg, store, nops, prev, node>>

\* the end of pauseAndRun after its body returned nil
Resumed(f) == IF f.paused /\ task[f.node][f.id] = "paused"
              THEN [task EXCEPT ![f.node][f.id] = "running"] ELSE task

\* one turn of the loop over the changes: ch.update returned nil or an error
ChangeLoop_m(f, ok) ==
    [f EXCEPT !.todo = Tail(@), !.applied = IF ok THEN Append(@, Head(f.todo)) ELSE @,
              !.failedAt = IF ok THEN @ ELSE Len(f.applied) + 1]
ChangeLoop(f, ok) ==
    IF ok THEN [f EXCEPT !.todo = Tail(@), !.applied = Append(@, Head(f.todo))]
    ELSE [Done(f, "Runtime") EXCEPT !.failedAt = Len(f.applied) + 1]

\* what the update method of each kind of change does when it returns nil
DeregisterChange(r, id, name) == Deregister(r, id, {name}, {name})
ImageUpdateChange(c, image) == WithUpgrade(c, image)
ConfigChange(c, config) == WithBossConfig(WithSetPreviousConfig(c), config)
FilesChange(st, id, config) == [st EXCEPT ![id] = config]

UpdateChange ==
    /\ Running("Update", "body") /\ Top.todo # <<>>
    /\ LET f == Top
           n == f.node
           id == f.id
           ch == Head(f.todo)
       IN  \E ok \in BOOLEAN :
            /\ SetTop(ChangeLoop(f, ok))
            /\ leases' = IF ChangeLoop(f, ok).pc = "done" THEN Released(f) ELSE leases
            /\ reg' = IF ok /\ ch.kind = "dereg" THEN DeregisterChange(reg, id, ch.name) ELSE reg
            /\ ctr' = IF ok /\ ch.kind = "image"
                      THEN [ctr EXCEPT ![n][id] = ImageUpdateChange(@, f.cfg.image)]
                      ELSE IF ok /\ ch.kind = "config"
                      THEN [ctr EXCEPT ![n][id] = ConfigChange(@, f.cfg)]
                      ELSE ctr
            /\ store' = IF ok /\ ch.kind = "files" THEN FilesChange(store, id, f.cfg) ELSE store
    /\ UNCHANGED <<task, unit, imgs, hub, nops, prev, node>>

UpdateSignal ==
    /\ Running("Update", "body") /\ Top.todo = <<>>
    /\ LET f == Top
           n == f.node
           id == f.id
       IN  IF ~f.tsk
           THEN /\ SetTop([f EXCEPT !.pc = "wait"])
                /\ task' = Resumed(f)
                /\ UNCHANGED leases
           ELSE \E ok \in BOOLEAN :
                    /\ ok => task[n][id] # "none"
                    /\ IF ok
                       THEN /\ SetTop([f EXCEPT !.pc = "wait",
                                                !.sigs = Append(@, [sig |-> "SIGTERM", ok |-> TRUE])])
                            /\ task' = Resumed(f)
                            /\ UNCHANGED leases
                       ELSE /\ SetTop(Done([f EXCEPT !.sigs = Append(@, [sig |-> "SIGTERM", ok |-> FALSE])],
                                           "Runtime"))
                            /\ leases' = Released(f)
                            /\ UNCHANGED task
    /\ UNCHANGED <<ctr, unit, imgs, hub, reg, store, nops, prev, node>>

\* return &v1.UpdateResponse{}, task.Kill(ctx, unix.SIGKILL)
TimeoutResult_m(killed) == "nil"
TimeoutResult(killed) == IF killed THEN "nil" ELSE "Runtime"

UpdateWait ==
    /\ Running("Update", "wait")
    /\ LET f == Top
           n == f.node
           id == f.id
       IN  \/ \* <-wait: the task has exited, or there was none
              /\ ~f.tsk \/ task[n][id] = "none"
              /\ SetTop(Done(f, "nil"))
              /\ UNCHANGED task
           \/ \* <-wctx.Done(): ten seconds passed and the task is still there
              /\ f.tsk /\ task[n][id] # "none"
              /\ \E ok \in BOOLEAN :
                    /\ SetTop(Done([f EXCEPT !.timedOut = TRUE,
                                             !.sigs = Append(@, [sig |-> "SIGKILL", ok |-> ok])],
                                   TimeoutResult(ok)))
                    /\ task' = IF ok THEN [task EXCEPT ![n][id] = "none"] ELSE task
    /\ leases' = Released(Top)
    /\ UNCHANGED <<ctr, unit, imgs, hub, reg, store, nops, prev, node>>

\* ------------------------------------------------------------- Rollback
CallRollback(max) ==
    \E i \in Ids : Call([NewFrame("Rollback", Self, i) EXCEPT !.pre = ctr[Self][i]], max)

RollbackBegin ==
    /\ Running("Rollback", "start")
    /\ LET f == Top
       IN  \/ \* WithLease fails
              /\ SetTop(Done(f, "Runtime"))
              /\ UNCHANGED leases
           \/ /\ ~ctr[f.node][f.id].ex
              /\ SetTop(Done(f, "NotFound"))
              /\ UNCHANGED leases
           \/ /\ ctr[f.node][f.id].ex
              /\ SetTop([f EXCEPT !.pc = "pause", !.lease = TRUE])
              /\ leases' = [leases EXCEPT ![f.node] = @ + 1]
    /\ UNCHANGED <<ctr, task, unit, imgs, hub, reg, store, nops, prev, node>>

\* the body Rollback hands to pauseAndRun
RollbackBody ==
    /\ Running("Rollback", "body")
    /\ LET f == Top
           n == f.node
           id == f.id
       IN  \E upOk \in BOOLEAN, killOk \in BOOLEAN :
            /\ ctr' = IF upOk THEN [ctr EXCEPT ![n][id] = WithRollback(FluxWithRollback(@))] ELSE ctr
            /\ IF ~upOk
               THEN SetTop(Done(f, "Runtime")) /\ UNCHANGED task
               ELSE IF task[n][id] = "none"
               THEN SetTop(Done(f, "NotFound")) /\ UNCHANGED task
               ELSE IF ~killOk
               THEN /\ SetTop(Done([f EXCEPT !.sigs = Append(@, [sig |-> "SIGTERM", ok |-> FALSE])], "Runtime"))
                    /\ UNCHANGED task
               ELSE /\ SetTop(Done([f EXCEPT !.sigs = Append(@, [sig |-> "SIGTERM", ok |-> TRUE])], "nil"))
                    /\ task' = Resumed(f)
            /\ leases' = Released(f)
    /\ UNCHANGED <<unit, imgs, hub, reg, store, nops, prev, node>>

\* ----------------------------------------------------------------- Kill
CallKill(max) ==
    \E i \in Ids : Call([NewFrame("Kill", Self, i) EXCEPT !.pre = ctr[Self][i]], max)

KillRun ==
    /\ Running("Kill", "start")
    /\ LET f == Top
           n == f.node
           id == f.id
           c == ctr[n][id]
       IN  \/ /\ ~c.ex
              /\ SetTop(Done(f, "NotFound"))
              /\ UNCHANGED reg
           \/ /\ c.ex
              /\ \E okS \in SUBSET c.cur.services, killOk \in BOOLEAN :
                    LET g == [f EXCEPT !.maint = MaintenanceNames(c.cur), !.maintOk = okS]
                    IN  /\ reg' = EnableMaintainance(reg, id, MaintenanceNames(c.cur), okS)
                        /\ IF task[n][id] = "none"
                           THEN SetTop(Done(g, "NotFound"))
                           ELSE SetTop(Done([g EXCEPT !.sigs = Append(@, [sig |-> "SIGTERM", ok |-> killOk])],
                                            IF killOk THEN "nil" ELSE "Runtime"))
    /\ UNCHANGED <<ctr, task, unit, imgs, hub, store, leases, nops, prev, node>>

\* --------------------------------------------------------------- Delete
CallDelete(max) ==
    \E i \in Ids : Call([NewFrame("Delete", Self, i) EXCEPT !.pre = ctr[Self][i]], max)

\* for name := range config.Services: the services Delete deregisters
DeleteServices_m(config) == {}
DeleteServices(config) == config.services

DeleteRun ==
    /\ Running("Delete", "start")
    /\ LET f == Top
           n == f.node
           id == f.id
           c == ctr[n][id]
       IN  \/ /\ ~c.ex
              /\ SetTop(Done(f, "NotFound"))
              /\ UNCHANGED <<ctr, task, unit, reg>>
           \/ /\ c.ex
              /\ \E fail \in {"", "stop", "disable", "network", "delete"}, okS \in SUBSET c.cur.services :
                    LET stopped == fail # "stop"
                        disabled == stopped /\ fail # "disable"
                        removed == disabled /\ fail # "network"
                        deleted == removed /\ fail # "delete"
                    IN  /\ task' = IF stopped THEN [task EXCEPT ![n][id] = "none"] ELSE task
                        /\ unit' = IF disabled THEN [unit EXCEPT ![n][id] = "off"]
                                   ELSE IF stopped /\ unit[n][id] = "active"
                                   THEN [unit EXCEPT ![n][id] = "enabled"] ELSE unit
                        /\ reg' = IF removed THEN Deregister(reg, id, DeleteServices(c.cur), okS) ELSE reg
                        /\ ctr' = IF deleted THEN [ctr EXCEPT ![n][id] = NoCtr] ELSE ctr
                        /\ SetTop(Done([f EXCEPT !.log =
                                          (IF stopped THEN <<"stop">> ELSE <<>>)
                                          \o (IF disabled THEN <<"disable">> ELSE <<>>)
                                          \o (IF removed THEN <<"network", "deregister">> ELSE <<>>)
                                          \o (IF deleted THEN <<"delete">> ELSE <<>>),
                                         !.dereg = IF removed THEN DeleteServices(c.cur) ELSE {},
                                         !.deregOk = IF removed THEN okS ELSE {}],
                                        IF fail = "" THEN "nil" ELSE "Runtime"))
    /\ UNCHANGED <<imgs, hub, store, leases, nops, prev, node>>

\* ----------------------------------------------------------- Get, List
\* what info returns when it returns no error
Status(n, id) == IF task[n][id] = "none" THEN "stopped" ELSE task[n][id]
Info(n, id) ==
    [id |-> id, image |-> ctr[n][id].image, status |-> Status(n, id), config |-> ctr[n][id].cur]

\* the entry List appends for a container whose info failed
ListError(id) == [id |-> id, image |-> "", status |-> "list error", config |-> NoConfig]

\* a.client.Containers
Containers(n) == SelectSeq(IdOrder, LAMBDA i : ctr[n][i].ex)

\* the loop of List over the containers; info failed for those in failed
ListEntries_m(n, cs, failed) ==
    LET ok == SelectSeq(cs, LAMBDA i : i \notin failed)
    IN  [k \in 1..Len(ok) |-> Info(n, ok[k])]
ListEntries(n, cs, failed) ==
    [k \in 1..Len(cs) |-> IF cs[k] \in failed THEN ListError(cs[k]) ELSE Info(n, cs[k])]

CallList(max) == Call(NewFrame("List", Self, ""), max)

ListRun ==
    /\ Running("List", "start")
    /\ LET f == Top
           cs == Containers(f.node)
           ids == {cs[k] : k \in 1..Len(cs)}
       IN  \/ \* a.client.Containers fails
              SetTop(Done(f, "Runtime"))
           \/ \E failed \in SUBSET ids :
                /\ \A i \in ids : ctr[f.node][i].bad => i \in failed
                /\ SetTop(Done([f EXCEPT !.log = <<"Containers">>, !.failed = failed,
                                         !.resp = ListEntries(f.node, cs, failed)], "nil"))
    /\ UNCHANGED <<ctr, task, unit, imgs, hub, reg, store, leases, nops, prev, node>>

\* the config extension of a container gets corrupt
Corrupt ==
    \E n \in Nodes, i \in AllIds :
        /\ stack = <<>>
        /\ ctr[n][i].ex /\ ~ctr[n][i].bad
        /\ ctr' = [ctr EXCEPT ![n][i].bad = TRUE]
        /\ UNCHANGED <<task, unit, imgs, hub, reg, store, leases, stack, nops, prev, node>>

CallGet(max) ==
    \E n \in Nodes, i \in Ids : Call(NewFrame("Get", n, i), max)

GetRun ==
    /\ Running("Get", "start")
    /\ \/ /\ ~ctr[Top.node][Top.id].ex
          /\ SetTop(Done(Top, "NotFound"))
       \/ /\ ctr[Top.node][Top.id].ex /\ ~ctr[Top.node][Top.id].bad
          /\ SetTop(Done([Top EXCEPT !.resp = <<Info(Top.node, Top.id)>>], "nil"))
       \/ \* info fails, or the peer cannot be reached
          SetTop(Done(Top, "Runtime"))
    /\ UNCHANGED <<ctr, task, unit, imgs, hub, reg, store, leases, nops, prev, node>>

\* ----------------------------------------------------------------- Push
CallPush(max) ==
    \E r \in Refs : Call([NewFrame("Push", Self, "") EXCEPT !.ref = r], max)

PushRun ==
    /\ Running("Push", "start")
    /\ LET f == Top
       IN  \/ /\ ~imgs[f.node][f.ref].ex
              /\ SetTop(Done(f, "NotFound"))
              /\ UNCHANGED hub
           \/ /\ imgs[f.node][f.ref].ex
              /\ \E ok \in BOOLEAN :
                    /\ hub' = IF ok THEN [hub EXCEPT ![f.ref] = imgs[f.node][f.ref]] ELSE hub
                    /\ SetTop(Done(f, IF ok THEN "nil" ELSE "Runtime"))
    /\ UNCHANGED <<ctr, task, unit, imgs, reg, store, leases, nops, prev, node>>

\* ----------------------------------------------------------- Checkpoint
Descriptor(mt, rw) == [mt |-> mt, rw |-> rw]

\* what the runtime's task checkpoint returns
TaskDescriptors ==
    <<Descriptor(MediaTypeContainerd1Checkpoint, 0), Descriptor(MediaTypeContainerd1CheckpointConfig, 0)>>

\* the rw layer descriptor rootfs.CreateDiff returns under the options given
RwDescriptor(rw) == Descriptor(MediaTypeImageLayer, rw)

AppendTaskDescriptors_m(manifests, ds) == manifests \o ds

\* the loop over the task checkpoint's descriptors
AppendTaskDescriptors(manifests, ds) ==
    manifests \o SelectSeq(ds, LAMBDA d : d.mt # MediaTypeContainerd1CheckpointConfig)

GetByMediaType(manifests, mt) ==
    IF \E k \in 1..Len(manifests) : manifests[k].mt = mt
    THEN CHOOSE k \in 1..Len(manifests) :
            /\ manifests[k].mt = mt
            /\ \A j \in 1..(k - 1) : manifests[j].mt # mt
    ELSE 0

CallCheckpoint(max) ==
    \E i \in Ids, r \in Refs, lv \in BOOLEAN, ex \in BOOLEAN :
        Call([NewFrame("Checkpoint", Self, i) EXCEPT !.ref = r, !.live = lv, !.exit = ex,
                                                      !.pre = ctr[Self][i],
                                                      !.hadimg = imgs[Self][r].ex], max)

CheckpointBegin ==
    /\ Running("Checkpoint", "start")
    /\ LET f == Top
           c == ctr[f.node][f.id]
       IN  \/ \* WithLease, Info, the marshalling or the write of the info blob fails
              /\ SetTop(Done(f, "Runtime"))
              /\ UNCHANGED leases
           \/ /\ ~c.ex
              /\ SetTop(Done(f, "NotFound"))
              /\ UNCHANGED leases
           \/ /\ c.ex
              /\ SetTop([f EXCEPT !.pc = "pause", !.lease = TRUE,
                                  !.idx = [ex |-> TRUE, info |-> c, by |-> "checkpoint",
                                           manifests |-> <<Descriptor(MediaTypeContainerInfo, 0)>>]])
              /\ leases' = [leases EXCEPT ![f.node] = @ + 1]
    /\ UNCHANGED <<ctr, task, unit, imgs, hub, reg, store, nops, prev, node>>

\* the body Checkpoint hands to pauseAndRun
CheckpointBody ==
    /\ Running("Checkpoint", "body")
    /\ LET f == Top
           n == f.node
           id == f.id
           withRw == Append(f.idx.manifests, RwDescriptor(ctr[n][id].rw))
       IN  \E diffOk \in BOOLEAN, ckOk \in BOOLEAN :
            /\ ckOk => task[n][id] # "none"
            /\ IF ~diffOk \/ (f.live /\ ~ckOk)
               THEN /\ SetTop(Done(f, "Runtime"))
                    /\ leases' = Released(f)
                    /\ UNCHANGED task
               ELSE /\ SetTop([f EXCEPT !.pc = "index",
                                        !.diffcur = ctr[n][id].cur,
                                        !.idx.manifests = IF f.live
                                                          THEN AppendTaskDescriptors(withRw, TaskDescriptors)
                                                          ELSE withRw])
                    /\ task' = IF f.live /\ f.exit THEN [task EXCEPT ![n][id] = "none"] ELSE Resumed(f)
                    /\ UNCHANGED leases
    /\ UNCHANGED <<ctr, unit, imgs, hub, reg, store, nops, prev, node>>

CheckpointFinish ==
    /\ Running("Checkpoint", "index")
    /\ LET f == Top
           n == f.node
           id == f.id
       IN  \E fail \in {"", "index", "stop"} :
            LET created == fail # "index" /\ ~imgs[n][f.ref].ex
                stopped == created /\ f.exit /\ fail # "stop"
            IN  /\ imgs' = IF created THEN [imgs EXCEPT ![n][f.ref] = f.idx] ELSE imgs
                /\ unit' = IF stopped /\ unit[n][id] = "active"
                           THEN [unit EXCEPT ![n][id] = "enabled"] ELSE unit
                /\ task' = IF stopped THEN [task EXCEPT ![n][id] = "none"] ELSE task
                /\ SetTop(Done(f, IF ~created /\ fail # "index" THEN "AlreadyExists"
                                  ELSE IF ~created \/ (f.exit /\ ~stopped) THEN "Runtime"
                                  ELSE "nil"))
                /\ leases' = Released(f)
    /\ UNCHANGED <<ctr, hub, reg, store, nops, prev, node>>

\* An Update request for the same container that the agent serves while
\* Checkpoint is between the write of its info blob and pauseAndRun: the
\* agent does not serialize the two. The Update runs to its return, which
\* the Checkpoint frame records in sub, and Checkpoint goes on.
UpdateDuringCheckpoint(max) ==
    /\ Running("Checkpoint", "pause") /\ Len(stack) = 1 /\ Top.sub = ""
    /\ nops < max
    /\ \E c \in Configs :
          /\ c.id = Top.id
          /\ stack' = Append(stack, [NewFrame("Update", Top.node, c.id)
                                        EXCEPT !.cfg = c, !.pre = ctr[Top.node][c.id]])
    /\ nops' = nops + 1
    /\ UNCHANGED <<ctr, task, unit, imgs, hub, reg, store, leases, prev, node>>

\* -------------------------------------------------------------- Restore
\* an index in the registry that no Checkpoint of these agents made
Publish ==
    \E r \in Refs, c \in {k \in Configs : k.services = {}} :
        /\ stack = <<>>
        /\ ~hub[r].ex
        /\ hub' = [hub EXCEPT ![r] =
                     [ex |-> TRUE, by |-> "foreign",
                      info |-> [NoCtr EXCEPT !.ex = TRUE, !.cur = c, !.image = c.image],
                      manifests |-> <<Descriptor(MediaTypeContainerInfo, 0),
                                      Descriptor(MediaTypeImageLayerGzip, MaxRw)>>]]
        /\ UNCHANGED <<ctr, task, unit, imgs, reg, store, leases, stack, nops, prev, node>>

GetConfigFromInfo(info) == info.cur

CallRestore(max) ==
    \E n \in Nodes, r \in Refs, lv \in BOOLEAN :
        Call([NewFrame("Restore", n, "") EXCEPT !.ref = r, !.live = lv], max)

RestoreBegin ==
    /\ Running("Restore", "start")
    /\ LET f == Top
           n == f.node
           local == imgs[n][f.ref].ex
           index == IF local THEN imgs[n][f.ref] ELSE hub[f.ref]
       IN  \/ /\ ~index.ex
              /\ SetTop(Done(f, "NotFound"))
              /\ UNCHANGED imgs
           \/ /\ ~local
              /\ SetTop(Done(f, "Runtime"))
              /\ UNCHANGED imgs
           \/ /\ index.ex
              /\ imgs' = [imgs EXCEPT ![n][f.ref] = index]
              /\ \E ok \in BOOLEAN :
                    IF GetByMediaType(index.manifests, MediaTypeContainerInfo) = 0
                       \/ (f.live /\ GetByMediaType(index.manifests, MediaTypeContainerd1Checkpoint) = 0)
                    THEN SetTop(Done(f, "MediaTypeNotFound"))
                    ELSE IF ~ok
                    THEN \* the blob read, the pull of the image or the volume root read fails
                         SetTop(Done(f, "Runtime"))
                    ELSE SetTop([f EXCEPT !.pc = "create", !.idx = index,
                                          !.cfg = GetConfigFromInfo(index.info),
                                          !.id = GetConfigFromInfo(index.info).id,
                                          !.tpre = ctr[n][GetConfigFromInfo(index.info).id]])
    /\ UNCHANGED <<ctr, task, unit, hub, reg, store, leases, nops, prev, node>>

\* Restore from NewContainer on
RestoreCreate ==
    /\ Running("Restore", "create")
    /\ LET f == Top
           n == f.node
           id == f.id
           k == GetByMediaType(f.idx.manifests, MediaTypeImageLayerGzip)
           new == WithBossConfig(WithNewSnapshot([NoCtr EXCEPT !.ex = TRUE], f.cfg.image), f.cfg)
       IN  \/ /\ ctr[n][id].ex
              /\ SetTop(Done(f, "AlreadyExists"))
              /\ UNCHANGED <<ctr, unit, store>>
           \/ /\ ~ctr[n][id].ex
              /\ SetTop(Done(f, "Runtime"))
              /\ UNCHANGED <<ctr, unit, store>>
           \/ /\ ~ctr[n][id].ex
              /\ \E fail \in {"", "info", "apply", "store", "enable", "start"} :
                    LET found == fail # "info" /\ k # 0
                        applied == found /\ fail # "apply"
                        written == applied /\ fail # "store"
                        enabled == written /\ fail # "enable"
                        started == enabled /\ fail # "start"
                    IN  /\ ctr' = [ctr EXCEPT ![n][id] =
                                     IF applied /\ ~written THEN NoCtr
                                     ELSE IF applied THEN [new EXCEPT !.rw = f.idx.manifests[k].rw]
                                     ELSE new]
                        /\ store' = IF written THEN [store EXCEPT ![id] = f.cfg] ELSE store
                        /\ unit' = [unit EXCEPT ![n][id] =
                                      IF started THEN "active" ELSE IF enabled THEN "enabled" ELSE @]
                        /\ SetTop(Done(f, IF started THEN "nil"
                                          ELSE IF fail # "info" /\ k = 0 THEN "MediaTypeNotFound"
                                          ELSE "Runtime"))
    /\ UNCHANGED <<task, imgs, hub, reg, leases, nops, prev, node>>

\* -------------------------------------------------------------- Migrate
CallMigrate(max) ==
    \E i \in Ids, r \in Refs, lv \in BOOLEAN, st \in BOOLEAN, dl \in BOOLEAN :
        Call([NewFrame("Migrate", Self, i) EXCEPT !.to = Peer, !.ref = r, !.live = lv,
                                                   !.exit = st, !.del = dl,
                                                   !.pre = ctr[Self][i], !.tpre = ctr[Peer][i]], max)

\* the handler calls another one and waits for it
Invoke(f, pc, g) ==
    stack' = Append([stack EXCEPT ![Len(stack)] = [f EXCEPT !.pc = pc, !.sub = "", !.log = Append(@, g.op)]], g)

\* the deferred ImageService().Delete(ctx, req.Ref) at a return of Migrate:
\* called when it was registered, its error dropped
Deferred_m(f) == [f EXCEPT !.rmtried = @ + 1]
Deferred(f) == IF f.rmimg THEN [f EXCEPT !.rmtried = @ + 1] ELSE f

DeferredImageDelete(f, ok) ==
    IF f.rmimg /\ ok THEN [imgs EXCEPT ![f.node][f.ref] = NoIndex] ELSE imgs

MigrateCheck ==
    /\ Running("Migrate", "start")
    /\ \/ \* api.Agent(req.To) fails
          SetTop(Done(Deferred(Top), "Runtime"))
       \/ Invoke(Top, "check", NewFrame("Get", Top.to, Top.id))
    /\ UNCHANGED <<ctr, task, unit, imgs, hub, reg, store, leases, nops, prev, node>>

\* Exit: req.Stop || req.Delete
MigrateExit_m(stop, del) == stop
MigrateExit(stop, del) == stop \/ del

MigrateCheckpoint ==
    /\ Running("Migrate", "check") /\ Top.sub # ""
    /\ LET f == Top
       IN  IF f.sub = "nil"
           THEN SetTop(Done(Deferred(f), "ServiceExistsOnTarget"))
           ELSE Invoke(f, "checkpoint",
                       [NewFrame("Checkpoint", f.node, f.id) EXCEPT !.ref = f.ref, !.live = f.live,
                                                                    !.exit = MigrateExit(f.exit, f.del),
                                                                    !.pre = ctr[f.node][f.id],
                                                                    !.hadimg = imgs[f.node][f.ref].ex])
    /\ UNCHANGED <<ctr, task, unit, imgs, hub, reg, store, leases, nops, prev, node>>

MigratePush ==
    /\ Running("Migrate", "checkpoint") /\ Top.sub # ""
    /\ LET f == Top
       IN  IF f.sub # "nil"
           THEN SetTop(Done(Deferred(f), f.sub))
           ELSE Invoke([f EXCEPT !.rmimg = TRUE], "push",
                       [NewFrame("Push", f.node, "") EXCEPT !.ref = f.ref])
    /\ UNCHANGED <<ctr, task, unit, imgs, hub, reg, store, leases, nops, prev, node>>

MigrateRestore ==
    /\ Running("Migrate", "push") /\ Top.sub # ""
    /\ LET f == Top
       IN  IF f.sub # "nil"
           THEN /\ SetTop(Done(Deferred(f), f.sub))
                /\ \E ok \in BOOLEAN : imgs' = DeferredImageDelete(f, ok)
           ELSE /\ Invoke(f, "restore",
                          [NewFrame("Restore", f.to, "") EXCEPT !.ref = f.ref, !.live = f.live])
                /\ UNCHANGED imgs
    /\ UNCHANGED <<ctr, task, unit, hub, reg, store, leases, nops, prev, node>>

MigrateDelete_m ==
    /\ Running("Migrate", "restore") /\ Top.sub # ""
    /\ LET f == Top
       IN  IF ~f.del
           THEN /\ SetTop(Done(Deferred(f), f.sub))
                /\ \E ok \in BOOLEAN : imgs' = DeferredImageDelete(f, ok)
           ELSE /\ Invoke(f, "delete",
                          [NewFrame("Delete", f.node, f.id) EXCEPT !.pre = ctr[f.node][f.id]])
                /\ UNCHANGED imgs
    /\ UNCHANGED <<ctr, task, unit, hub, reg, store, leases, nops, prev, node>>

MigrateDelete ==
    /\ Running("Migrate", "restore") /\ Top.sub # ""
    /\ LET f == Top
       IN  IF f.sub # "nil" \/ ~f.del
           THEN /\ SetTop(Done(Deferred(f), f.sub))
                /\ \E ok \in BOOLEAN : imgs' = DeferredImageDelete(f, ok)
           ELSE /\ Invoke(f, "delete",
                          [NewFrame("Delete", f.node, f.id) EXCEPT !.pre = ctr[f.node][f.id]])
                /\ UNCHANGED imgs
    /\ UNCHANGED <<ctr, task, unit, hub, reg, store, leases, nops, prev, node>>

MigrateReturn ==
    /\ Running("Migrate", "delete") /\ Top.sub # ""
    /\ SetTop(Done(Deferred(Top), Top.sub))
    /\ \E ok \in BOOLEAN : imgs' = DeferredImageDelete(Top, ok)
    /\ UNCHANGED <<ctr, task, unit, hub, reg, store, leases, nops, prev, node>>

\* ------------------------------------------------- missing arguments
\* the handlers that begin with if id == "" { return nil, ErrNoID }, and
\* those that begin with if req.Ref == "" { return nil, ErrNoRef }
ChecksID == {"Delete", "Get", "Kill", "Start", "Stop", "Rollback", "Checkpoint", "Migrate"}
ChecksRef == {"Push", "Restore"}
Handlers == ChecksID \cup ChecksRef \cup {"Create", "Update"}
TakesRef == {"Push", "Restore", "Checkpoint", "Migrate"}

ArgCheck(op, id, ref) ==
    IF op \in ChecksID /\ id = "" THEN "NoID"
    ELSE IF op \in ChecksRef /\ ref = "" THEN "NoRef"
    ELSE ""

\* the calls a handler makes with the empty argument when no check of its
\* own stops it, up to the first call that cannot succeed without it
FirstCalls(op) ==
    CASE op = "Update" -> <<"WithLease", "LoadContainer">>
      [] op = "Create" -> <<"Pull", "LoadContainer", "NewContainer">>
      [] op = "Checkpoint" -> <<"WithLease", "LoadContainer", "Info", "writeContent">>
      [] op = "Migrate" -> <<"Agent", "Get">>
      [] OTHER -> <<>>

\* a request that lacks an argument: the id, or the ref where there is one
CallInvalid(max) ==
    \E op \in Handlers, i \in Ids \cup {""}, r \in Refs \cup {""} :
        /\ op \notin ChecksRef => i = "" \/ (op \in TakesRef /\ r = "")
        /\ op \in ChecksRef => i = "" /\ r = ""
        /\ op \notin TakesRef => r = ""
        /\ Call([NewFrame(op, Self, i) EXCEPT !.ref = r, !.pc = "args"], max)

InvalidRun ==
    /\ stack # <<>> /\ Top.pc = "args"
    /\ LET f == Top
           e == ArgCheck(f.op, f.id, f.ref)
       IN  IF e # ""
           THEN SetTop(Done(f, e))
           ELSE \E k \in 1..Len(FirstCalls(f.op)) :
                    \* one of the calls fails, the last one at the latest
                    SetTop(Done([f EXCEPT !.log = SubSeq(FirstCalls(f.op), 1, k)], "Runtime"))
    /\ UNCHANGED <<ctr, task, unit, imgs, hub, reg, store, leases, nops, prev, node>>

\* ---------------------------------------------------- New, resolv.conf
\* the loop of New over the peers: the first one that carries the master
\* label, as the address of its store, or none
FindMaster_m(peers) ==
    LET ks == {k \in 1..Len(peers) : peers[k].master}
    IN  IF ks = {} THEN <<>>
        ELSE LET k == CHOOSE j \in ks : \A i \in ks : i <= j
             IN  <<[host |-> peers[k].host, port |-> peers[k].port]>>
FindMaster(peers) ==
    LET ks == {k \in 1..Len(peers) : peers[k].master}
    IN  IF ks = {} THEN <<>>
        ELSE LET k == CHOOSE j \in ks : \A i \in ks : j <= i
             IN  <<[host |-> peers[k].host, port |-> peers[k].port]>>

\* the lines writeResolvConf writes
WriteResolvConf(peers) == [k \in 1..Len(peers) |-> peers[k].host]

\* the node reports a member that joined, or that left
PeerJoin ==
    \E p \in PeerSet :
        /\ node.events < MaxEvents
        /\ \A k \in 1..Len(node.members) : node.members[k] # p
        /\ node' = [node EXCEPT !.members = Append(@, p), !.events = @ + 1,
                                !.queue = IF node.subscribed THEN @ + 1 ELSE @]
        /\ UNCHANGED <<ctr, task, unit, imgs, hub, reg, store, leases, stack, nops, prev>>

PeerLeave ==
    \E k \in 1..Len(node.members) :
        /\ node.events < MaxEvents
        /\ node' = [node EXCEPT !.members = SelectSeq(@, LAMBDA p : p # node.members[k]),
                                !.events = @ + 1,
                                !.queue = IF node.subscribed THEN @ + 1 ELSE @]
        /\ UNCHANGED <<ctr, task, unit, imgs, hub, reg, store, leases, stack, nops, prev>>

New ==
    /\ ~node.up /\ node.err = ""
    /\ \E isMaster \in BOOLEAN, fail \in {"", "register", "store", "peers", "slaveof", "resolv"} :
          LET peers == node.members
              master == IF isMaster THEN <<[host |-> "127.0.0.1", port |-> "local"]>>
                        ELSE FindMaster(peers)
              started == fail \notin {"register", "store"} /\ (isMaster \/ fail # "peers")
              found == started /\ master # <<>>
              sent == found /\ ~isMaster
              slaved == found /\ (isMaster \/ fail # "slaveof")
              \* handleResolvConf asks the node for its peers again
              written == slaved /\ fail \notin {"peers", "resolv"}
          IN  node' = [node EXCEPT
                  !.master = isMaster, !.fail = fail, !.peers0 = peers,
                  !.slaveof = IF sent THEN master ELSE <<>>,
                  !.resolv = IF written THEN WriteResolvConf(Append(peers, Me)) ELSE @,
                  !.wrote = written,
                  !.captured = IF written THEN Append(peers, Me) ELSE @,
                  !.subscribed = written,
                  !.up = written,
                  !.err = IF written THEN ""
                          ELSE IF started /\ ~found THEN "NoMaster" ELSE "Runtime"]
    /\ UNCHANGED <<ctr, task, unit, imgs, hub, reg, store, leases, stack, nops, prev>>

\* the goroutine of handleResolvConf takes one event from its channel
HandleEvent ==
    /\ node.up /\ node.queue > 0
    /\ \E ok \in BOOLEAN :
          node' = [node EXCEPT !.queue = @ - 1,
                               !.resolv = IF ok THEN WriteResolvConf(node.captured) ELSE <<>>,
                               !.wrote = ok]
    /\ UNCHANGED <<ctr, task, unit, imgs, hub, reg, store, leases, stack, nops, prev>>

Next ==
    \/ CallInvalid(MaxOps) \/ InvalidRun
    \/ UpdateDuringCheckpoint(MaxOps)
    \/ PeerJoin \/ PeerLeave \/ New \/ HandleEvent
    \/ TaskExit \/ TaskStart \/ TaskWrite
    \/ Return
    \/ CallCreate(MaxOps) \/ CallCreateUpdate(MaxOps) \/ CreateRun \/ CreateSub
    \/ CallUpdate(MaxOps) \/ UpdateBegin \/ PauseAndRun \/ UpdateChange \/ UpdateSignal \/ UpdateWait
    \/ CallRollback(MaxOps) \/ RollbackBegin \/ RollbackBody
    \/ CallKill(MaxOps) \/ KillRun
    \/ CallDelete(MaxOps) \/ DeleteRun
    \/ CallGet(MaxOps) \/ GetRun
    \/ CallCreateOther(MaxOps) \/ Corrupt \/ CallList(MaxOps) \/ ListRun
    \/ CallPush(MaxOps) \/ PushRun
    \/ CallCheckpoint(MaxOps) \/ CheckpointBegin \/ CheckpointBody \/ CheckpointFinish
    \/ Publish \/ CallRestore(MaxOps) \/ RestoreBegin \/ RestoreCreate
    \/ CallMigrate(MaxOps) \/ MigrateCheck \/ MigrateCheckpoint \/ MigratePush \/ MigrateRestore
    \/ MigrateDelete \/ MigrateReturn

Spec == Init /\ [][Next]_vars

\* the life of a container's configuration on one agent
NextConfig ==
    \/ TaskExit \/ TaskStart
    \/ Return
    \/ CallCreate(MaxConfigOps) \/ CallCreateUpdate(MaxConfigOps) \/ CreateRun \/ CreateSub
    \/ CallUpdate(MaxConfigOps) \/ UpdateBegin \/ PauseAndRun \/ UpdateChange \/ UpdateSignal \/ UpdateWait
    \/ CallRollback(MaxConfigOps) \/ RollbackBegin \/ RollbackBody
    \/ CallKill(MaxConfigOps) \/ KillRun

SpecConfig == Init /\ [][NextConfig]_vars

\* checkpoints, the registry and the move of a container to the peer
NextMigrate ==
    \/ TaskExit \/ TaskStart \/ TaskWrite
    \/ Return
    \/ CallCreate(MaxOps) \/ CreateRun
    \/ CallDelete(MaxOps) \/ DeleteRun
    \/ CallGet(MaxOps) \/ GetRun
    \/ CallPush(MaxOps) \/ PushRun
    \/ CallCheckpoint(MaxOps) \/ CheckpointBegin \/ PauseAndRun \/ CheckpointBody \/ CheckpointFinish
    \/ Publish \/ CallRestore(MaxOps) \/ RestoreBegin \/ RestoreCreate
    \/ CallMigrate(MaxOps) \/ MigrateCheck \/ MigrateCheckpoint \/ MigratePush \/ MigrateRestore
    \/ MigrateDelete \/ MigrateReturn

SpecMigrate == Init /\ [][NextMigrate]_vars

\* the containers of one agent and what Get and List report of them
NextList ==
    \/ TaskExit \/ TaskStart
    \/ Return
    \/ CallCreate(MaxOps) \/ CallCreateOther(MaxOps) \/ CreateRun
    \/ Corrupt
    \/ CallGet(MaxOps) \/ GetRun
    \/ CallList(MaxOps) \/ ListRun

SpecList == Init /\ [][NextList]_vars

\* Checkpoint with an Update served in its course
NextConcurrent ==
    \/ TaskExit \/ TaskStart
    \/ Return
    \/ CallCreate(MaxOps) \/ CreateRun
    \/ CallCheckpoint(MaxOps) \/ CheckpointBegin \/ PauseAndRun \/ CheckpointBody \/ CheckpointFinish
    \/ UpdateDuringCheckpoint(MaxOps) \/ UpdateBegin \/ UpdateChange \/ UpdateSignal \/ UpdateWait

SpecConcurrent == Init /\ [][NextConcurrent]_vars

\* requests without their arguments, among requests with them
NextArgs ==
    \/ TaskExit \/ TaskStart
    \/ Return
    \/ CallCreate(MaxOps) \/ CreateRun
    \/ CallGet(MaxOps) \/ GetRun
    \/ CallInvalid(MaxOps) \/ InvalidRun

SpecArgs == Init /\ [][NextArgs]_vars

\* the handlers that take a content lease
NextLease ==
    \/ TaskExit \/ TaskStart
    \/ Return
    \/ CallCreate(MaxOps) \/ CreateRun
    \/ CallUpdate(MaxOps) \/ UpdateBegin \/ PauseAndRun \/ UpdateChange \/ UpdateSignal \/ UpdateWait
    \/ CallRollback(MaxOps) \/ RollbackBegin \/ RollbackBody
    \/ CallCheckpoint(MaxOps) \/ CheckpointBegin \/ CheckpointBody \/ CheckpointFinish
    \/ UpdateDuringCheckpoint(MaxOps)

SpecLease == Init /\ [][NextLease]_vars

\* the construction of the agent and the members of its cluster
NextNode == PeerJoin \/ PeerLeave \/ New \/ HandleEvent

SpecNode == Init /\ [][NextNode]_vars

\* =================================================================== claims
\* the container a frame works on
Ctr(f) == ctr[f.node][f.id]
Returned(op) == Running(op, "done")
Rank(kind) == CASE kind = "dereg" -> 1 [] kind = "image" -> 2 [] kind = "config" -> 3 [] OTHER -> 4
SigKinds(f) == {f.sigs[k].sig : k \in 1..Len(f.sigs)}

\* C1: after Update returns success, CurrentConfig is the desired config and
\* LastConfig is the value CurrentConfig held immediately before the call.
C1_UpdateSwapsConfig ==
    Returned("Update") /\ Top.err = "nil"
        => Ctr(Top).cur = Top.cfg /\ Ctr(Top).last = Top.pre.cur

\* C1 witness: an Update to a different config has returned success.
C1_Witness ==
    Returned("Update") /\ Top.err = "nil" /\ Top.pre.cur # Top.cfg /\ Top.pre.cur # NoConfig

\* C2: a successful Rollback that directly follows a successful Update leaves
\* CurrentConfig equal to the config the container had before that Update.
C2_RollbackRestores ==
    Returned("Rollback") /\ Top.err = "nil" /\ prev.op = "Update"
        => Ctr(Top).cur = prev.cur

\* C2 witness: a Rollback has succeeded right after an Update that changed
\* the config.
C2_Witness ==
    Returned("Rollback") /\ Top.err = "nil" /\ prev.op = "Update" /\ prev.cur # Top.pre.cur

\* C3 (amended): a successful Rollback with a LastConfig keeps LastConfig (it
\* is not emptied) and makes CurrentConfig equal to it; a Rollback that
\* directly follows a successful Rollback changes neither extension.
C3_RollbackKeepsLastConfig ==
    /\ Returned("Rollback") /\ Top.err = "nil" /\ Top.pre.last # NoConfig
        => Ctr(Top).last = Top.pre.last /\ Ctr(Top).cur = Top.pre.last
    /\ Returned("Rollback") /\ prev.op = "Rollback"
        => Ctr(Top).cur = Top.pre.cur /\ Ctr(Top).last = Top.pre.last

\* C3 witness: a second consecutive Rollback has succeeded, the first one
\* having changed CurrentConfig.
C3_Witness ==
    /\ Returned("Rollback") /\ Top.err = "nil" /\ prev.op = "Rollback"
    /\ Top.pre.last # NoConfig /\ prev.cur # Top.pre.cur

\* C3 as claimed: after a Rollback LastConfig is empty, and a second
\* consecutive Rollback changes neither extension.
C3_LastConfigEmptyAfterRollback ==
    /\ Returned("Rollback") /\ Top.err = "nil" => Ctr(Top).last = NoConfig
    /\ Returned("Rollback") /\ prev.op = "Rollback"
        => Ctr(Top).cur = Top.pre.cur /\ Ctr(Top).last = Top.pre.last

C5_FailedChangeAborts ==
    \A k \in 1..Len(stack) :
        LET f == stack[k]
        IN  f.op = "Update" /\ f.failedAt > 0 =>
              /\ f.pc = "done" /\ f.err = "Runtime"
              /\ Len(f.applied) = f.failedAt - 1
              /\ f.sigs = <<>>
              /\ \A i \in 1..Len(f.applied) :
                    LET ch == f.applied[i]
                    IN  /\ ch.kind = "dereg" => reg[f.id][ch.name] = "gone"
                        /\ ch.kind = "image" => Ctr(f).image = f.cfg.image
                        /\ ch.kind = "config" => Ctr(f).cur = f.cfg /\ Ctr(f).last = f.pre.cur

\* C5 witness: the files change of an Update on a container with a task has
\* failed after a deregister, the image and the config change.
C5_Witness ==
    /\ Returned("Update") /\ Top.tsk /\ Top.failedAt = Len(Top.applied) + 1
    /\ Len(Top.applied) = 4 /\ Top.pre.cur # Top.cfg

\* C6 (amended): when the wait of Update times out, Update sends SIGKILL and
\* returns what that Kill returns: success when it was delivered, its error
\* otherwise; when the task exits before the timeout Update returns success
\* and sends no SIGKILL.
C6_TimeoutReturnsKillResult ==
    Returned("Update") =>
        /\ Top.timedOut =>
              /\ Len(Top.sigs) = 2 /\ Top.sigs[2].sig = "SIGKILL"
              /\ (Top.err = "nil") <=> Top.sigs[2].ok
        /\ Top.sigs # <<>> /\ Top.sigs[1].ok /\ ~Top.timedOut =>
              Top.err = "nil" /\ "SIGKILL" \notin SigKinds(Top)

\* C6 witness: the wait has timed out and the SIGKILL was not delivered.
C6_Witness ==
    Returned("Update") /\ Top.timedOut /\ Top.err # "nil"

\* C6 as claimed: on timeout Update sends SIGKILL and returns success; when
\* the task exits before the timeout it returns success without SIGKILL.
C6_TimeoutReturnsSuccess ==
    Returned("Update") =>
        /\ Top.timedOut => "SIGKILL" \in SigKinds(Top) /\ Top.err = "nil"
        /\ Top.sigs # <<>> /\ Top.sigs[1].ok /\ ~Top.timedOut =>
              Top.err = "nil" /\ "SIGKILL" \notin SigKinds(Top)

\* where C10 looks: Kill has returned for an existing container, or Update
\* is about to pause and has applied no change
MaintenancePoint ==
    /\ stack # <<>>
    /\ \/ Top.op = "Kill" /\ Top.pc = "done" /\ Top.pre.ex
       \/ Top.op = "Update" /\ Top.pc = "pause"

RwLayers(index) ==
    {index.manifests[k].rw : k \in {j \in 1..Len(index.manifests) :
        index.manifests[j].mt \in {MediaTypeImageLayer, MediaTypeImageLayerGzip}}}

\* C7 as claimed: Restore of an index a Checkpoint produced, on an agent that
\* does not host the id, succeeds unless the runtime, the registry or the
\* unit manager fails, and yields the container with the checkpointed
\* CurrentConfig and rw layer.
C7_CheckpointRestoreRoundTrip ==
    /\ Returned("Restore") /\ Top.idx.by = "checkpoint" /\ ~Top.tpre.ex
    /\ Top.live => GetByMediaType(Top.idx.manifests, MediaTypeContainerd1Checkpoint) # 0
    /\ Top.err # "Runtime"
    => /\ Top.err = "nil"
       /\ Ctr(Top).ex /\ Ctr(Top).cur = Top.idx.info.cur
       /\ Ctr(Top).rw \in RwLayers(Top.idx)

\* C8 as claimed: after a Migrate with delete set has returned success the
\* source no longer has the container and the target has it with the image
\* it had on the source.
C8_MigrateMovesContainer ==
    Returned("Migrate") /\ Top.del /\ Top.err = "nil"
        => /\ ~ctr[Top.node][Top.id].ex
           /\ ctr[Top.to][Top.id].ex
           /\ ctr[Top.to][Top.id].image = Top.pre.image

\* C9 as claimed: a Migrate to a target that hosts the id calls neither
\* Checkpoint, Push, Restore nor Delete and changes no container, and once
\* the target has answered it returns ServiceExistsOnTarget.
C9_MigrateOnlyToFreeTarget ==
    \A k \in 1..Len(stack) :
        LET f == stack[k]
        IN  f.op = "Migrate" /\ f.tpre.ex =>
              /\ \A i \in 1..Len(f.log) : f.log[i] = "Get"
              /\ ctr[f.node][f.id] = f.pre /\ ctr[f.to][f.id] = f.tpre
              /\ f.pc = "done" /\ f.log # <<>> => f.err = "ServiceExistsOnTarget"

\* the steps of a Delete in the order C11 gives them
DeleteOrder == <<"stop", "disable", "network", "deregister", "delete">>

\* C11 (amended): after Delete returns success the container and its
\* snapshots are gone, Delete has stopped and disabled the unit, removed the
\* container from the network, asked the registry to deregister every
\* service of its config and deleted the container, in that order, and every
\* service whose request the registry carried out is deregistered.
C11_DeleteRemovesContainer ==
    Returned("Delete") =>
        /\ \E k \in 0..Len(DeleteOrder) : Top.log = SubSeq(DeleteOrder, 1, k)
        /\ Top.err = "nil" =>
              /\ Ctr(Top) = NoCtr
              /\ Top.log = DeleteOrder
              /\ Top.dereg = Top.pre.cur.services
              /\ \A s \in Top.pre.cur.services : s \in Top.deregOk => reg[Top.id][s] = "gone"

\* C11 witness: a Delete of a container with two registered services has
\* returned success; the registry refused to deregister one of them.
C11_Witness ==
    /\ Returned("Delete") /\ Top.err = "nil"
    /\ Top.pre.cur.services = {"s1", "s2"} /\ Top.deregOk = {"s1"}
    /\ reg[Top.id]["s1"] = "gone" /\ reg[Top.id]["s2"] = "up"

\* C11 as claimed: after Delete returns success the container is gone, every
\* service of its config is deregistered, and the steps ran in the order
\* stop, disable, network, deregister, delete.
C11_DeleteDeregistersAll ==
    Returned("Delete") /\ Top.err = "nil" =>
        /\ Ctr(Top) = NoCtr
        /\ Top.log = DeleteOrder
        /\ \A s \in Top.pre.cur.services : reg[Top.id][s] = "gone"

\* C12: a List whose enumeration of the containers succeeded returns
\* success with one entry per container of the runtime, in the runtime's
\* order: {id, "list error"} for a container whose info failed, the full info
\* for every other; Get of a container whose info fails returns an error, and
\* no Get returns the status "list error".
C12_ListTolerance ==
    /\ Returned("List") /\ Top.log # <<>> =>
          LET cs == Containers(Top.node)
          IN  /\ Top.err = "nil"
              /\ Len(Top.resp) = Len(cs)
              /\ \A k \in 1..Len(cs) :
                    /\ Top.resp[k].id = cs[k]
                    /\ ctr[Top.node][cs[k]].bad => cs[k] \in Top.failed
                    /\ cs[k] \in Top.failed => Top.resp[k] = ListError(cs[k])
                    /\ cs[k] \notin Top.failed =>
                          /\ Top.resp[k].config = ctr[Top.node][cs[k]].cur
                          /\ Top.resp[k].image = ctr[Top.node][cs[k]].image
                          /\ Top.resp[k].status \in {"stopped", "running", "paused"}
    /\ Returned("Get") =>
          /\ Ctr(Top).bad => Top.err # "nil"
          /\ Top.err = "nil" <=> Top.resp # <<>>
          /\ \A k \in 1..Len(Top.resp) : Top.resp[k].status # "list error"

\* C12 witness: List has returned two entries, the second a "list error" for
\* a container with a corrupt extension, the first a full info.
C12_Witness ==
    /\ Returned("List") /\ Len(Top.resp) = 2
    /\ Top.resp[1].status # "list error"
    /\ Top.resp[2].status = "list error" /\ ctr[Top.node][Top.resp[2].id].bad

\* the master-labelled peers among those New found
Masters == SelectSeq(node.peers0, LAMBDA p : p.master)
Constructed == node.up \/ node.err # ""

\* C13: the construction of a non-master agent fails with NoMaster and sends
\* no SLAVEOF when no peer carries the master label; with one or more it
\* succeeds, unless a collaborator fails, and the one SLAVEOF it sends names
\* the host and the store-port label of the first master-labelled peer.
C13_StartupFindsMaster ==
    Constructed /\ ~node.master =>
        /\ Masters = <<>> =>
              /\ ~node.up /\ node.slaveof = <<>>
              /\ node.fail \notin {"register", "store", "peers"} => node.err = "NoMaster"
        /\ Masters # <<>> =>
              /\ node.err # "NoMaster"
              /\ node.fail = "" => node.up
              /\ node.up => node.slaveof = <<[host |-> Masters[1].host, port |-> Masters[1].port]>>
              /\ \A k \in 1..Len(node.slaveof) :
                    node.slaveof[k] = [host |-> Masters[1].host, port |-> Masters[1].port]

\* C13 witness: a non-master agent has started among two master-labelled
\* peers, the one labelled h2 enumerated first.
C13_Witness ==
    /\ node.up /\ ~node.master /\ Len(Masters) = 2
    /\ node.slaveof = <<[host |-> "h2", port |-> "6002"]>>

\* members of the cluster now: the peers the node reports, and the agent
Membership == Append(node.members, Me)

\* C14 as claimed: once every join and leave event is handled, and the last
\* write of the file succeeded, resolv.conf has one line per member of the
\* current membership, in enumeration order.
C14_ResolvConfFollowsMembership ==
    node.up /\ node.queue = 0 /\ node.wrote => node.resolv = WriteResolvConf(Membership)

\* C15 as claimed: a Restore that returns an error after it created the
\* container has deleted it: no container with that id is left where there
\* was none when the Restore began.
C15_FailedRestoreLeavesNoContainer ==
    Returned("Restore") /\ Top.err # "nil" /\ Top.id # "" /\ ~Top.tpre.ex =>
        ~ctr[Top.node][Top.id].ex

LayerTypes == {MediaTypeImageLayer, MediaTypeImageLayerGzip}
Count(manifests, mts) == Cardinality({k \in 1..Len(manifests) : manifests[k].mt \in mts})

\* the shape of an index Checkpoint writes
CheckpointShape(manifests) ==
    /\ Len(manifests) >= 2
    /\ manifests[1].mt = MediaTypeContainerInfo
    /\ Count(manifests, {MediaTypeContainerInfo}) = 1
    /\ manifests[2].mt \in LayerTypes
    /\ Count(manifests, LayerTypes) = 1
    /\ Count(manifests, {MediaTypeContainerd1CheckpointConfig}) = 0

\* C16: every index Checkpoint writes has the container-info blob as its
\* first manifest and only there, then exactly one rw layer diff; descriptors
\* of the task checkpoint follow these two only when live is set, and none has
\* the checkpoint-config media type.
C16_CheckpointIndexShape ==
    /\ \A n \in Nodes, r \in Refs :
          imgs[n][r].ex /\ imgs[n][r].by = "checkpoint" => CheckpointShape(imgs[n][r].manifests)
    /\ \A r \in Refs :
          hub[r].ex /\ hub[r].by = "checkpoint" => CheckpointShape(hub[r].manifests)
    /\ Running("Checkpoint", "index") =>
          /\ CheckpointShape(Top.idx.manifests)
          /\ Len(Top.idx.manifests) > 2 => Top.live

\* C16 witness: a live Checkpoint has returned success and its image holds
\* the info blob, the rw layer diff and the task checkpoint.
C16_Witness ==
    /\ Returned("Checkpoint") /\ Top.err = "nil" /\ Top.live
    /\ imgs[Top.node][Top.ref] = Top.idx
    /\ Len(Top.idx.manifests) = 3
    /\ Top.idx.manifests[3].mt = MediaTypeContainerd1Checkpoint

\* C17 as claimed: a Checkpoint that returns an error leaves no image under
\* the requested ref where there was none when it began.
C17_FailedCheckpointLeavesNoImage ==
    Returned("Checkpoint") /\ Top.err # "nil" /\ ~Top.hadimg => ~imgs[Top.node][Top.ref].ex

\* the step in which the config change of an Update on container id of agent n
\* is applied
ConfigChangeStep(n, id) ==
    /\ Running("Update", "body") /\ Top.todo # <<>>
    /\ Top.node = n /\ Top.id = id
    /\ Head(Top.todo).kind = "config"

\* C18: every container has a CurrentConfig, and LastConfig is present exactly
\* from the config change of an Update on: a successful Update leaves it
\* present, nothing but the config change of an Update makes it present, and
\* it stays present while the container exists. (An Update that fails after
\* its config change leaves LastConfig present.)
C18_ConfigExtensions ==
    /\ [](\A n \in Nodes, id \in AllIds : ctr[n][id].ex => ctr[n][id].cur # NoConfig)
    /\ [](Returned("Update") /\ Top.err = "nil" => Ctr(Top).last # NoConfig)
    /\ [][\A n \in Nodes, id \in AllIds :
            /\ ctr[n][id].last = NoConfig /\ ctr'[n][id].last # NoConfig => ConfigChangeStep(n, id)
            /\ ctr[n][id].last # NoConfig /\ ctr'[n][id].ex => ctr'[n][id].last # NoConfig]_vars

\* C18 witness: an Update has failed after its config change, on a container
\* that had no LastConfig: it has one now.
C18_Witness ==
    /\ Returned("Update") /\ Top.err # "nil"
    /\ Top.pre.ex /\ Top.pre.last = NoConfig
    /\ Ctr(Top).last = Top.pre.cur /\ Ctr(Top).cur = Top.cfg

\* C18 as claimed: when an Update on a container without LastConfig returns,
\* LastConfig is present if and only if the Update returned success.
C18_LastConfigIffSuccessfulUpdate ==
    Returned("Update") /\ Top.pre.ex /\ Top.pre.last = NoConfig =>
        (Ctr(Top).last # NoConfig <=> Top.err = "nil")

\* C20 as claimed: when a Checkpoint and an Update served in its course both
\* return success, the container record in the checkpoint's info blob has the
\* CurrentConfig the container had when the rw layer diff was taken.
C20_ConcurrentUpdateKeepsInfo ==
    Returned("Checkpoint") /\ Top.err = "nil" /\ Top.sub = "nil" =>
        Top.idx.info.cur = Top.diffcur

\* the handlers a Migrate has invoked so far, in order
Invoked(f) == f.log
DeleteStepFailed ==
    /\ Returned("Migrate") /\ Top.del /\ Top.err # "nil"
    /\ \E k \in 1..Len(Invoked(Top)) : Invoked(Top)[k] = "Delete"

\* C21: when the Delete step of a Migrate with delete set fails, the
\* container still exists on the source, and its unit is not running there:
\* the Checkpoint step, run with exit set, has stopped it.
C21_FailedDeleteLeavesStoppedSource ==
    DeleteStepFailed =>
        /\ Ctr(Top).ex
        /\ unit[Top.node][Top.id] # "active"
        /\ task[Top.node][Top.id] = "none"

\* C21 witness: the Delete step of a Migrate has failed.
C21_Witness == DeleteStepFailed /\ Ctr(Top).ex /\ ctr[Top.to][Top.id].ex

\* C21 as claimed: when the Delete step of a Migrate with delete set fails,
\* the container exists on the source and its unit is running there.
C21_FailedDeleteLeavesSourceLive ==
    DeleteStepFailed => Ctr(Top).ex /\ unit[Top.node][Top.id] = "active"

MigrateSteps == <<"Get", "Checkpoint", "Push", "Restore", "Delete">>

\* a step in which the Migrate on top of the stack invokes its next handler
MigrateInvokes ==
    /\ stack # <<>> /\ Top.op = "Migrate"
    /\ Len(stack') = Len(stack) + 1

\* C22: Migrate invokes Get on the target, Checkpoint with exit = stop or
\* delete, Push, Restore on the target and Delete, in this order; Checkpoint
\* only after the Get found nothing, each later one only after the one before
\* returned success, Delete only when delete is set; so the source container
\* is gone during a Migrate only after Restore put it on the target.
C22_MigrateStepOrder ==
    /\ [][MigrateInvokes =>
            LET f == Top
                g == stack'[Len(stack')]
                k == Len(Invoked(stack'[Len(stack)]))
            IN  /\ k = Len(Invoked(f)) + 1 /\ k <= Len(MigrateSteps)
                /\ g.op = MigrateSteps[k]
                /\ g.node = IF k \in {1, 4} THEN f.to ELSE f.node
                /\ k = 2 => /\ f.sub \notin {"", "nil"}
                            /\ g.exit = (f.exit \/ f.del) /\ g.live = f.live /\ g.ref = f.ref
                /\ k > 2 => f.sub = "nil"
                /\ k = 5 => f.del]_vars
    /\ [](stack # <<>> /\ stack[1].op = "Migrate" /\ stack[1].pre.ex /\ ~Ctr(stack[1]).ex =>
            /\ stack[1].del
            /\ Invoked(stack[1]) = MigrateSteps
            /\ ctr[stack[1].to][stack[1].id].ex)

\* C22 witness: a Migrate with delete set has run its five steps and
\* returned success; the container is on the target and gone from the source.
C22_Witness ==
    /\ Returned("Migrate") /\ Top.err = "nil" /\ Top.del
    /\ Invoked(Top) = MigrateSteps
    /\ ~Ctr(Top).ex /\ ctr[Top.to][Top.id].ex

\* the Checkpoint step of the Migrate f returned success: Push was invoked
CheckpointStepDone(f) == Len(Invoked(f)) >= 3

\* C23: a Migrate that returns has tried to delete the image under ref from
\* the local image service exactly once when its Checkpoint step succeeded
\* (whether it returns success or the error of Push, Restore or Delete) and
\* not at all when the check or the Checkpoint step failed; no attempt is
\* made before it returns.
C23_ImageDeleteAttempted ==
    \A k \in 1..Len(stack) :
        stack[k].op = "Migrate" =>
            stack[k].rmtried = IF stack[k].pc = "done" /\ CheckpointStepDone(stack[k]) THEN 1 ELSE 0

\* C23 witness: a Migrate has failed in its Restore step and the image its
\* Checkpoint step made is gone from the local image service.
C23_Witness ==
    /\ Returned("Migrate") /\ Top.err # "nil" /\ Invoked(Top) = SubSeq(MigrateSteps, 1, 4)
    /\ Top.rmtried = 1 /\ ~imgs[Top.node][Top.ref].ex

\* C24: a successful Rollback on a container that has a LastConfig copies it
\* into CurrentConfig and leaves LastConfig as it was (the former
\* CurrentConfig is not kept); on a container with no LastConfig it changes
\* neither extension.
C24_RollbackCopiesLastConfig ==
    Returned("Rollback") /\ Top.err = "nil" =>
        IF Top.pre.last # NoConfig
        THEN Ctr(Top).cur = Top.pre.last /\ Ctr(Top).last = Top.pre.last
        ELSE Ctr(Top).cur = Top.pre.cur /\ Ctr(Top).last = NoConfig

\* C24 witness: a Rollback has succeeded on a container whose LastConfig
\* differed from its CurrentConfig.
C24_Witness ==
    /\ Returned("Rollback") /\ Top.err = "nil"
    /\ Top.pre.last # NoConfig /\ Top.pre.last # Top.pre.cur

\* C24 as claimed: a successful Rollback swaps the two extensions, and
\* changes neither when there is no LastConfig.
C24_RollbackSwaps ==
    Returned("Rollback") /\ Top.err = "nil" =>
        IF Top.pre.last # NoConfig
        THEN Ctr(Top).cur = Top.pre.last /\ Ctr(Top).last = Top.pre.cur
        ELSE Ctr(Top).cur = Top.pre.cur /\ Ctr(Top).last = NoConfig

\* C25 as claimed: the rw layer descriptor of every index Checkpoint writes
\* has the gzip layer media type, the one Restore looks for, and no Restore
\* of such an index fails with MediaTypeNotFound at its rw layer.
C25_RwLayerMediaTypeMatches ==
    /\ Running("Checkpoint", "index") => Top.idx.manifests[2].mt = MediaTypeImageLayerGzip
    /\ Returned("Restore") /\ Top.idx.ex /\ Top.idx.by = "checkpoint" =>
          Top.err # "MediaTypeNotFound"

LeaseOps == {"Update", "Rollback", "Checkpoint"}
Held(n) == Cardinality({k \in 1..Len(stack) : stack[k].node = n /\ stack[k].lease})

\* C26: an Update, a Rollback or a Checkpoint holds a content lease from its
\* first step after the start until it returns: every step of it that writes
\* the container, the config store or an image is taken under the lease; the
\* lease is released once, so the leases of an agent are those of the calls
\* in progress, and none is left when a call has returned.
C26_LeaseScopedToCall ==
    /\ [](\A n \in Nodes : leases[n] = Held(n))
    /\ [](\A k \in 1..Len(stack) :
            stack[k].op \in LeaseOps =>
                (stack[k].lease <=> stack[k].pc \notin {"start", "done"}))
    /\ [](stack = <<>> => \A n \in Nodes : leases[n] = 0)
    /\ [][stack # <<>> /\ Top.op \in LeaseOps /\ (ctr' # ctr \/ store' # store \/ imgs' # imgs)
            => Top.lease]_vars

\* C26 witness: an Update served in the course of a Checkpoint has applied
\* changes and returned an error; its lease is released and the one of the
\* Checkpoint is still held.
C26_Witness ==
    /\ Returned("Update") /\ Len(stack) = 2 /\ Top.err # "nil" /\ Top.applied # <<>>
    /\ stack[1].lease /\ leases[Top.node] = 1

RequiresID == {"Create", "Delete", "Get", "Kill", "Start", "Stop", "Update", "Rollback",
               "Checkpoint", "Migrate"}
RequiresRef == {"Push", "Restore", "Checkpoint", "Migrate"}

\* C27 as claimed: a handler that requires an id, called without one, returns
\* NoID, and one that requires a ref, called without one, returns NoRef, in
\* both cases having made no call to the runtime, the registry, the unit
\* manager or a peer and taken no lease.
C27_MissingArgumentRejected ==
    stack # <<>> /\ Top.pc = "done" =>
        /\ Top.op \in RequiresID /\ Top.id = "" => Top.err = "NoID" /\ Top.log = <<>>
        /\ Top.op \in RequiresRef /\ Top.ref = "" /\ ~(Top.op \in RequiresID /\ Top.id = "") =>
              Top.err = "NoRef" /\ Top.log = <<>>

\* C28 as claimed: a Create for an unused id that returns an error leaves no
\* container with that id; a Create without update for an existing id fails
\* (with AlreadyExists, unless the pull failed first) and leaves the container
\* as it was.
C28_FailedCreateLeavesNoContainer ==
    /\ Returned("Create") /\ ~Top.pre.ex /\ Top.err # "nil" => ~Ctr(Top).ex
    /\ Returned("Create") /\ Top.pre.ex /\ ~Top.upd =>
          Top.err \in {"AlreadyExists", "Runtime"} /\ Ctr(Top) = Top.pre

\* C29 as claimed: a Rollback that returns an error has left CurrentConfig
\* and LastConfig as they were before the call.
C29_FailedRollbackChangesNothing ==
    Returned("Rollback") /\ Top.err # "nil" =>
        Ctr(Top).cur = Top.pre.cur /\ Ctr(Top).last = Top.pre.last

Changes(f) == f.applied \o f.todo
Deregs(cs) == {k \in 1..Len(cs) : cs[k].kind = "dereg"}
Kinds(cs) == {cs[k].kind : k \in 1..Len(cs)}

\* C30: the deregister changes of an Update are one per service of the
\* current config that the desired config lacks; once the config change is
\* applied each of them is applied and those services are deregistered; no
\* step of an Update deregisters a service that both configs have.
C30_DeregisterDroppedOnly ==
    /\ [](\A k \in 1..Len(stack) :
            LET f == stack[k]
                dropped == f.pre.cur.services \ f.cfg.services
            IN  f.op = "Update" /\ Changes(f) # <<>> =>
                  /\ Cardinality(Deregs(Changes(f))) = Cardinality(dropped)
                  /\ {Changes(f)[i].name : i \in Deregs(Changes(f))} = dropped
                  /\ "config" \in Kinds(f.applied) =>
                        /\ Deregs(f.todo) = {}
                        /\ \A s \in dropped : reg[f.id][s] = "gone")
    /\ [][stack # <<>> /\ Top.op = "Update" =>
            \A s \in Top.pre.cur.services \cap Top.cfg.services :
                reg'[Top.id][s] = "gone" => reg[Top.id][s] = "gone"]_vars

\* C30 witness: an Update from services s1, s2 to s1 has applied its config
\* change: s2 is deregistered and s1, registered before, is not.
C30_Witness ==
    /\ stack # <<>> /\ Top.op = "Update"
    /\ Top.pre.cur.services = {"s1", "s2"} /\ Top.cfg.services = {"s1"}
    /\ "config" \in Kinds(Top.applied)
    /\ reg[Top.id]["s2"] = "gone" /\ reg[Top.id]["s1"] # "gone"
====
